---- MODULE Spec2Model ----
(***************************************************************************)
(* A model of src/src/lib.rs: MyVec<T>, a growable heap-backed vector      *)
(* built on the raw allocator, and IntoIter<T>, its consuming double-ended *)
(* iterator.                                                               *)
(*                                                                         *)
(* Memory is modelled at byte level.  `mem` is the window of bytes         *)
(* [ptr, ptr + cap * size_of::<T>()) the vector believes it owns; `blocks` *)
(* is the allocator's own record of every block it handed out, with the    *)
(* byte size that was actually requested for it.  A byte the program never *)
(* defined holds Uninit, and an element read from a slot with such a byte  *)
(* is Indeterminate: it stands for whatever the build finds there.         *)
(***************************************************************************)
EXTENDS Integers, Sequences, FiniteSets, TLC

\* ------------------------------------------------------------------ bounds

\* Elements a run may create (push, insert and indexed write each create one).
MaxElems == 3

\* Width of usize/isize in the model, in bits (scaled down from 64).
PtrBits == 5

\* isize::MAX for that width (lib.rs:39).
ISIZE_MAX == 2 ^ (PtrBits - 1) - 1

\* ------------------------------------------------------- element types, bytes

\* The element types T a MyVec is instantiated with: size_of and align_of.
\* (), u8, u16, i32.  align_of is at least 1 for every Rust type.
Types ==
  { [size |-> 0, align |-> 1],
    [size |-> 1, align |-> 1],
    [size |-> 2, align |-> 2],
    [size |-> 4, align |-> 4] }

\* A byte of memory whose content no write of the program defined.
Uninit == -1

\* The value of an element read from a slot holding an undefined byte.
Indeterminate == -1

\* Placeholder for an argument an operation does not take.
NoArg == "-"

VARIABLES
  T,         \* the type parameter of MyVec<T>: [size, align]
  status,    \* "start" | "vec" | "unwind" | "iter" | "done" | "aborted"
  ptr,       \* MyVec.ptr / IntoIter.buf: 0 is NonNull::dangling(), else a block of `blocks`
  cap,       \* MyVec.cap / IntoIter.cap
  len,       \* MyVec.len
  mem,       \* the bytes at ptr, offsets 0 .. cap * T.size - 1 (1-based sequence)
  blocks,    \* the allocator: block -> [size: bytes last requested, freed: times
             \* released, at: destructor runs logged when it was released]
  allocCall, \* the last call made to the allocator
  start,     \* IntoIter.start, as a byte offset from buf
  end,       \* IntoIter.end, as a byte offset from buf
  nextId,    \* number of the next element the caller creates
  yielded,   \* log of the elements handed to the caller (pop, remove, next, next_back)
  dropped,   \* log of the elements whose destructor ran, in order
  lastOp,    \* the last call: [op, idx, val, ret, out]
  hist,      \* shape of the call history: "pushes" | "pops" | "other"
  pushed,    \* the values pushed while hist = "pushes"
  popped,    \* the results of the pops that followed them
  orig,      \* the elements of the MyVec when into_iter consumed it
  nFront,    \* calls of next that returned Some
  nBack      \* calls of next_back that returned Some

vars ==
  << T, status, ptr, cap, len, mem, blocks, allocCall, start, end, nextId,
     yielded, dropped, lastOp, hist, pushed, popped, orig, nFront, nBack >>

\* ------------------------------------------------------------ representation

\* 256^n
RECURSIVE Pow256(_)
Pow256(n) == IF n = 0 THEN 1 ELSE 256 * Pow256(n - 1)

\* The object representation std::ptr::write stores: `size` little-endian bytes.
Encode(v, size) == [k \in 1..size |-> (v \div Pow256(k - 1)) % 256]

\* The value std::ptr::read builds from the bytes of a slot.
RECURSIVE DecodeFrom(_, _)
DecodeFrom(bytes, k) ==
  IF k > Len(bytes) THEN 0
  ELSE bytes[k] * Pow256(k - 1) + DecodeFrom(bytes, k + 1)

Decode(bytes) ==
  IF \E k \in 1..Len(bytes) : bytes[k] = Uninit THEN Indeterminate
  ELSE DecodeFrom(bytes, 1)

\* The n-th element the caller creates: every byte of its representation is n,
\* so that each byte is significant.  The unit value of a zero-sized T is 0.
RECURSIVE Repunit(_)
Repunit(size) == IF size = 0 THEN 0 ELSE 1 + 256 * Repunit(size - 1)

ValueOf(n) == n * Repunit(T.size)

\* a write through a byte pointer: only the first byte of the element is stored.
PtrWriteTruncated(m, i, ele) ==
  [k \in 1..Len(m) |->
     IF T.size > 0 /\ k = i * T.size + 1
     THEN Encode(ele, T.size)[1]
     ELSE m[k]]

\* std::ptr::write(p.add(i), ele)
PtrWrite(m, i, ele) ==
  [k \in 1..Len(m) |->
     IF k > i * T.size /\ k <= (i + 1) * T.size
     THEN Encode(ele, T.size)[k - i * T.size]
     ELSE m[k]]

\* std::ptr::read(p.add(i))
PtrRead(m, i) == Decode(SubSeq(m, i * T.size + 1, (i + 1) * T.size))

\* std::ptr::copy(p.add(src), p.add(dst), count): a memmove of count elements.
PtrCopy(m, src, dst, count) ==
  [k \in 1..Len(m) |->
     IF k > dst * T.size /\ k <= (dst + count) * T.size
     THEN m[k + (src - dst) * T.size]
     ELSE m[k]]

\* std::ptr::read at a byte offset from the start of the buffer.
PtrReadAt(m, off) == Decode(SubSeq(m, off + 1, off + T.size))

\* std::slice::from_raw_parts(ptr, n): the n elements starting at ptr.
SliceFromRawParts(m, n) == [i \in 1..n |-> PtrRead(m, i - 1)]

\* ------------------------------------------------------------------ allocator

\* alloc::Layout::array::<T>(n): Ok unless n * size_of::<T>(), rounded up to
\* the alignment, exceeds isize::MAX.
LayoutArrayOk(n) ==
  T.size = 0 \/ n <= (ISIZE_MAX + 1 - T.align) \div T.size

LayoutSize(n) == n * T.size

UninitBytes(n) == [k \in 1..n |-> Uninit]

NoCall == [fn |-> "none", layout |-> 0, block |-> 0, request |-> 0]

\* alloc::alloc(layout): a fresh block of layout.size() undefined bytes.
Alloc(bs, size) ==
  [ blocks |-> Append(bs, [size |-> size, freed |-> 0, at |-> 0]),
    ptr    |-> Len(bs) + 1 ]

\* alloc::dealloc(p, layout), called after n destructors have run.
Dealloc(bs, p, n) == [bs EXCEPT ![p].freed = @ + 1, ![p].at = n]

\* alloc::realloc(p, old_layout, new_size).  The allocator guarantees the first
\* min(size of the block, new_size) bytes.  It either resizes in place, where
\* the bytes the program wrote past the block are still found after it, or moves
\* the block, copying only the guaranteed bytes.
ReallocOutcomes(bs, p, m, new_size, window) ==
  LET keep  == IF bs[p].size < new_size THEN bs[p].size ELSE new_size
      grown == [k \in 1..window |-> IF k <= Len(m) THEN m[k] ELSE Uninit]
      moved == [k \in 1..window |-> IF k <= Len(m) /\ k <= keep THEN m[k] ELSE Uninit]
  IN { [ blocks |-> [bs EXCEPT ![p].size = new_size], ptr |-> p, mem |-> grown ],
       [ blocks |-> Append(Dealloc(bs, p, Len(dropped)),
                           [size |-> new_size, freed |-> 0, at |-> 0]),
         ptr |-> Len(bs) + 1, mem |-> moved ] }

\* grow that stores the new capacity before it knows the allocation succeeded.
GrowReallocCapFirst ==
  LET new_cap == cap * 2
      call    == [fn |-> "realloc", layout |-> LayoutSize(cap),
                  block |-> blocks[ptr].size, request |-> new_cap]
  IN { [out |-> "ok", ptr |-> r.ptr, cap |-> new_cap, mem |-> r.mem,
        blocks |-> r.blocks, call |-> call] :
         r \in ReallocOutcomes(blocks, ptr, mem, new_cap, LayoutSize(new_cap)) }
     \cup
     { [out |-> "abort", ptr |-> ptr, cap |-> new_cap, mem |-> mem,
        blocks |-> blocks, call |-> call] }

\* MyVec::grow.  The set of its outcomes: [out, ptr, cap, mem, blocks, call].
\* out is "ok", "panic" (the Layout unwrap or the size assertion) or "abort"
\* (the allocator returned null: handle_alloc_error).
GrowRealloc ==
  LET new_cap == cap * 2
      call    == [fn |-> "realloc", layout |-> LayoutSize(cap),
                  block |-> blocks[ptr].size, request |-> new_cap]
  IN { [out |-> "ok", ptr |-> r.ptr, cap |-> new_cap, mem |-> r.mem,
        blocks |-> r.blocks, call |-> call] :
         r \in ReallocOutcomes(blocks, ptr, mem, new_cap, LayoutSize(new_cap)) }
     \cup
     { [out |-> "abort", ptr |-> ptr, cap |-> cap, mem |-> mem,
        blocks |-> blocks, call |-> call] }

\* The first allocation.  For a zero-sized T the layout has size 0, which
\* alloc leaves undefined: the allocator answers with a block or with null, the
\* two outcomes below.
GrowAlloc ==
  LET new_cap == 1
      call    == [fn |-> "alloc", layout |-> LayoutSize(new_cap),
                  block |-> 0, request |-> LayoutSize(new_cap)]
      a       == Alloc(blocks, LayoutSize(new_cap))
  IN { [out |-> "ok", ptr |-> a.ptr, cap |-> new_cap,
        mem |-> UninitBytes(LayoutSize(new_cap)), blocks |-> a.blocks, call |-> call],
       [out |-> "abort", ptr |-> ptr, cap |-> cap, mem |-> mem,
        blocks |-> blocks, call |-> call] }

Grow ==
  LET new_cap == IF cap = 0 THEN 1 ELSE cap * 2 IN
  IF ~LayoutArrayOk(new_cap) \/ ~(LayoutSize(new_cap) <= ISIZE_MAX)
  THEN { [out |-> "panic", ptr |-> ptr, cap |-> cap, mem |-> mem,
          blocks |-> blocks, call |-> allocCall] }
  ELSE IF cap = 0 THEN GrowAlloc ELSE GrowRealloc

\* push and insert call grow only `if self.len == self.cap`.
NoGrow ==
  [out |-> "ok", ptr |-> ptr, cap |-> cap, mem |-> mem,
   blocks |-> blocks, call |-> allocCall]

\* push and insert without the `if self.len == self.cap` around grow.
GrowAlways == Grow

GrowIfFull == IF len = cap THEN Grow ELSE {NoGrow}

\* What a fault leaves behind: a panic unwinds (the MyVec is still to be
\* dropped), handle_alloc_error aborts the process.
StatusAfter(out) ==
  IF out = "ok" THEN "vec" ELSE IF out = "panic" THEN "unwind" ELSE "aborted"

Op(op, idx, val, ret, out) ==
  [op |-> op, idx |-> idx, val |-> val, ret |-> ret, out |-> out]

\* ---------------------------------------------------------------------- MyVec

Init ==
  /\ T \in Types
  /\ status = "start"
  /\ ptr = 0 /\ cap = 0 /\ len = 0
  /\ mem = << >>
  /\ blocks = << >>
  /\ allocCall = NoCall
  /\ start = 0 /\ end = 0
  /\ nextId = 1
  /\ yielded = << >> /\ dropped = << >>
  /\ lastOp = Op("none", NoArg, NoArg, << >>, "ok")
  /\ hist = "other" /\ pushed = << >> /\ popped = << >>
  /\ orig = << >> /\ nFront = 0 /\ nBack = 0

\* The assertion of MyVec::new.
NewAssert == T.align # 0

\* MyVec::new
New ==
  /\ status = "start"
  /\ IF NewAssert
     THEN /\ status' = "vec"
          /\ hist' = "pushes"
          /\ lastOp' = Op("new", NoArg, NoArg, << >>, "ok")
     ELSE /\ status' = "done"
          /\ hist' = "other"
          /\ lastOp' = Op("new", NoArg, NoArg, << >>, "panic")
  /\ ptr' = 0 /\ cap' = 0 /\ len' = 0
  /\ UNCHANGED << T, mem, blocks, allocCall, start, end, nextId, yielded,
                  dropped, pushed, popped, orig, nFront, nBack >>

\* MyVec::push
Push ==
  /\ status = "vec"
  /\ nextId <= MaxElems
  /\ LET ele == ValueOf(nextId) IN
     \E g \in GrowIfFull :
       /\ ptr' = g.ptr /\ cap' = g.cap /\ blocks' = g.blocks /\ allocCall' = g.call
       /\ status' = StatusAfter(g.out)
       /\ lastOp' = Op("push", NoArg, ele, << >>, g.out)
       /\ IF g.out = "ok"
          THEN /\ mem' = PtrWrite(g.mem, len, ele)
               /\ len' = len + 1
               /\ dropped' = dropped
               /\ hist' = IF hist = "pushes" THEN "pushes" ELSE "other"
               /\ pushed' = IF hist = "pushes" THEN Append(pushed, ele) ELSE << >>
          ELSE /\ mem' = g.mem
               /\ len' = len
               \* unwinding drops the argument; an abort runs no destructor
               /\ dropped' = IF g.out = "panic" THEN Append(dropped, ele) ELSE dropped
               /\ hist' = "other"
               /\ pushed' = << >>
  /\ nextId' = nextId + 1
  /\ popped' = << >>
  /\ UNCHANGED << T, start, end, yielded, orig, nFront, nBack >>

\* pop that decrements len before it looks at it: len wraps around on an
\* empty MyVec.
PopResultUnderflow(m, l) ==
  IF l = 0
  THEN [ret |-> << >>, len |-> (l - 1) % (2 ^ PtrBits)]
  ELSE [ret |-> << PtrRead(m, l - 1) >>, len |-> l - 1]

\* The body of MyVec::pop on a buffer m holding l elements: [ret, len].
PopResult(m, l) ==
  IF l = 0
  THEN [ret |-> << >>, len |-> 0]
  ELSE [ret |-> << PtrRead(m, l - 1) >>, len |-> l - 1]

\* MyVec::pop
Pop ==
  /\ status = "vec"
  /\ LET r == PopResult(mem, len) IN
       /\ len' = r.len
       /\ yielded' = yielded \o r.ret
       /\ lastOp' = Op("pop", NoArg, NoArg, r.ret, "ok")
       /\ IF hist \in {"pushes", "pops"} /\ Len(popped) <= Len(pushed)
          THEN /\ hist' = "pops"
               /\ pushed' = pushed
               /\ popped' = Append(popped, r.ret)
          ELSE /\ hist' = "other"
               /\ pushed' = << >>
               /\ popped' = << >>
  /\ UNCHANGED << T, status, ptr, cap, mem, blocks, allocCall, start, end,
                  nextId, dropped, orig, nFront, nBack >>

\* The calls that are neither push nor pop end the push/pop history.
HistOther == hist' = "other" /\ pushed' = << >> /\ popped' = << >>

\* The unsafe block of MyVec::insert: [mem, len].
InsertResult(m, l, idx, ele) ==
  [ mem |-> PtrWrite(PtrCopy(m, idx, idx + 1, l - idx), idx, ele),
    len |-> l + 1 ]

\* insert that grows before it checks the index.
InsertGrowFirst(idx) ==
  /\ status = "vec"
  /\ nextId <= MaxElems
  /\ LET ele == ValueOf(nextId) IN
     \E g \in GrowIfFull :
       /\ ptr' = g.ptr /\ cap' = g.cap /\ blocks' = g.blocks /\ allocCall' = g.call
       /\ IF g.out = "ok" /\ idx <= len
          THEN LET r == InsertResult(g.mem, len, idx, ele) IN
               /\ status' = "vec"
               /\ lastOp' = Op("insert", idx, ele, << >>, "ok")
               /\ mem' = r.mem
               /\ len' = r.len
               /\ dropped' = dropped
          ELSE /\ status' = IF g.out = "abort" THEN "aborted" ELSE "unwind"
               /\ lastOp' = Op("insert", idx, ele, << >>,
                               IF g.out = "abort" THEN "abort" ELSE "panic")
               /\ mem' = g.mem
               /\ len' = len
               /\ dropped' = IF g.out = "abort" THEN dropped ELSE Append(dropped, ele)
  /\ nextId' = nextId + 1
  /\ HistOther
  /\ UNCHANGED << T, start, end, yielded, orig, nFront, nBack >>

\* MyVec::insert
Insert(idx) ==
  /\ status = "vec"
  /\ nextId <= MaxElems
  /\ LET ele == ValueOf(nextId) IN
     IF ~(idx <= len)
     THEN /\ status' = "unwind"
          /\ lastOp' = Op("insert", idx, ele, << >>, "panic")
          /\ dropped' = Append(dropped, ele)
          /\ UNCHANGED << ptr, cap, len, mem, blocks, allocCall >>
     ELSE \E g \in GrowIfFull :
          /\ ptr' = g.ptr /\ cap' = g.cap /\ blocks' = g.blocks /\ allocCall' = g.call
          /\ status' = StatusAfter(g.out)
          /\ lastOp' = Op("insert", idx, ele, << >>, g.out)
          /\ IF g.out = "ok"
             THEN LET r == InsertResult(g.mem, len, idx, ele) IN
                  /\ mem' = r.mem
                  /\ len' = r.len
                  /\ dropped' = dropped
             ELSE /\ mem' = g.mem
                  /\ len' = len
                  /\ dropped' = IF g.out = "panic" THEN Append(dropped, ele) ELSE dropped
  /\ nextId' = nextId + 1
  /\ HistOther
  /\ UNCHANGED << T, start, end, yielded, orig, nFront, nBack >>

\* remove with the source and the destination of the copy exchanged.
RemoveResultSwapped(m, l, idx) ==
  [ item |-> PtrRead(m, idx),
    mem  |-> PtrCopy(m, idx, idx + 1, l - idx - 1),
    len  |-> l - 1 ]

\* remove that forgets `self.len -= 1`.
RemoveResultKeepLen(m, l, idx) ==
  [ item |-> PtrRead(m, idx),
    mem  |-> PtrCopy(m, idx + 1, idx, l - idx - 1),
    len  |-> l ]

\* The unsafe block of MyVec::remove: [item, mem, len].
RemoveResult(m, l, idx) ==
  [ item |-> PtrRead(m, idx),
    mem  |-> PtrCopy(m, idx + 1, idx, l - idx - 1),
    len  |-> l - 1 ]

\* MyVec::remove
Remove(idx) ==
  /\ status = "vec"
  /\ IF ~(idx < len)
     THEN /\ status' = "unwind"
          /\ lastOp' = Op("remove", idx, NoArg, << >>, "panic")
          /\ UNCHANGED << len, mem, yielded >>
     ELSE LET r == RemoveResult(mem, len, idx) IN
          /\ status' = "vec"
          /\ mem' = r.mem
          /\ len' = r.len
          /\ yielded' = Append(yielded, r.item)
          /\ lastOp' = Op("remove", idx, NoArg, << r.item >>, "ok")
  /\ HistOther
  /\ UNCHANGED << T, ptr, cap, blocks, allocCall, start, end, nextId, dropped,
                  orig, nFront, nBack >>

\* deref exposing every allocated slot instead of the live ones.
DerefCap == SliceFromRawParts(mem, cap)

\* <MyVec as Deref>::deref
Deref == SliceFromRawParts(mem, len)

\* <MyVec as DerefMut>::deref_mut
DerefMut == SliceFromRawParts(mem, len)

\* Indexing a slice: the bounds check of [T]::index / index_mut.
SliceInBounds(s, idx) == idx < Len(s)

\* v[idx] read through Deref
Read(idx) ==
  /\ status = "vec"
  /\ LET s == Deref IN
     IF SliceInBounds(s, idx)
     THEN /\ status' = "vec"
          /\ lastOp' = Op("read", idx, NoArg, << s[idx + 1] >>, "ok")
          /\ UNCHANGED << hist, pushed, popped >>
     ELSE /\ status' = "unwind"
          /\ lastOp' = Op("read", idx, NoArg, << >>, "panic")
          /\ HistOther
  /\ UNCHANGED << T, ptr, cap, len, mem, blocks, allocCall, start, end, nextId,
                  yielded, dropped, orig, nFront, nBack >>

\* v[idx] = ele through DerefMut: the assignment drops the element it replaces.
Write(idx) ==
  /\ status = "vec"
  /\ nextId <= MaxElems
  /\ LET ele == ValueOf(nextId)
         s   == DerefMut
     IN
     IF SliceInBounds(s, idx)
     THEN /\ status' = "vec"
          /\ mem' = PtrWrite(mem, idx, ele)
          /\ dropped' = Append(dropped, s[idx + 1])
          /\ lastOp' = Op("write", idx, ele, << >>, "ok")
     ELSE /\ status' = "unwind"
          /\ mem' = mem
          /\ dropped' = Append(dropped, ele)
          /\ lastOp' = Op("write", idx, ele, << >>, "panic")
  /\ nextId' = nextId + 1
  /\ HistOther
  /\ UNCHANGED << T, ptr, cap, len, blocks, allocCall, start, end, yielded,
                  orig, nFront, nBack >>

\* `while let Some(_) = self.pop() {}`: the elements popped, in order.
RECURSIVE DrainPop(_, _)
DrainPop(m, l) ==
  LET r == PopResult(m, l) IN
  IF r.ret = << >> THEN << >> ELSE r.ret \o DrainPop(m, r.len)

\* The call a destructor makes to release the buffer.
DeallocCall ==
  [fn |-> "dealloc", layout |-> LayoutSize(cap), block |-> blocks[ptr].size,
   request |-> 0]

\* <MyVec as Drop>::drop, run when the MyVec goes out of scope or a panic unwinds.
DropVec ==
  /\ status \in {"vec", "unwind"}
  /\ IF cap # 0
     THEN /\ dropped' = dropped \o DrainPop(mem, len)
          /\ len' = 0
          /\ blocks' = Dealloc(blocks, ptr, Len(dropped'))
          /\ allocCall' = DeallocCall
     ELSE UNCHANGED << dropped, len, blocks, allocCall >>
  /\ status' = "done"
  /\ lastOp' = Op("drop", NoArg, NoArg, << >>, "ok")
  /\ HistOther
  /\ UNCHANGED << T, ptr, cap, mem, start, end, nextId, yielded, orig, nFront, nBack >>

\* -------------------------------------------------------------------- IntoIter

\* The `end` field into_iter computes: ptr.add(len), as a byte offset.
IntoIterEnd == IF cap = 0 THEN 0 ELSE len * T.size

\* into_iter without mem::forget: the destructor of the MyVec runs as well.
IntoIterNoForget ==
  /\ status = "vec"
  /\ status' = "iter"
  /\ start' = 0
  /\ end' = IntoIterEnd
  /\ orig' = SliceFromRawParts(mem, len)
  /\ nFront' = 0 /\ nBack' = 0
  /\ lastOp' = Op("into_iter", NoArg, NoArg, << >>, "ok")
  /\ HistOther
  /\ IF cap # 0
     THEN /\ dropped' = dropped \o DrainPop(mem, len)
          /\ blocks' = Dealloc(blocks, ptr, Len(dropped'))
          /\ allocCall' = DeallocCall
     ELSE UNCHANGED << dropped, blocks, allocCall >>
  /\ UNCHANGED << T, ptr, cap, len, mem, nextId, yielded >>

\* MyVec::into_iter: the MyVec is forgotten, its destructor never runs.
IntoIter ==
  /\ status = "vec"
  /\ status' = "iter"
  /\ start' = 0
  /\ end' = IntoIterEnd
  /\ orig' = SliceFromRawParts(mem, len)
  /\ nFront' = 0 /\ nBack' = 0
  /\ lastOp' = Op("into_iter", NoArg, NoArg, << >>, "ok")
  /\ HistOther
  /\ UNCHANGED << T, ptr, cap, len, mem, blocks, allocCall, nextId, yielded, dropped >>

\* The body of IntoIter::next: [ret, start].
NextResult(m, s, e) ==
  IF s = e
  THEN [ret |-> << >>, start |-> s]
  ELSE [ret |-> << PtrReadAt(m, (s + T.size) - T.size) >>, start |-> s + T.size]

\* <IntoIter as Iterator>::next
IterNext ==
  /\ status = "iter"
  /\ LET r == NextResult(mem, start, end) IN
       /\ start' = r.start
       /\ yielded' = yielded \o r.ret
       /\ nFront' = nFront + Len(r.ret)
       /\ lastOp' = Op("next", NoArg, NoArg, r.ret, "ok")
  /\ UNCHANGED << T, status, ptr, cap, len, mem, blocks, allocCall, end, nextId,
                  dropped, hist, pushed, popped, orig, nBack >>

\* The body of IntoIter::next_back: [ret, end].
NextBackResult(m, s, e) ==
  IF s = e
  THEN [ret |-> << >>, end |-> e]
  ELSE [ret |-> << PtrReadAt(m, e - T.size) >>, end |-> e - T.size]

\* <IntoIter as DoubleEndedIterator>::next_back
IterNextBack ==
  /\ status = "iter"
  /\ LET r == NextBackResult(mem, start, end) IN
       /\ end' = r.end
       /\ yielded' = yielded \o r.ret
       /\ nBack' = nBack + Len(r.ret)
       /\ lastOp' = Op("next_back", NoArg, NoArg, r.ret, "ok")
  /\ UNCHANGED << T, status, ptr, cap, len, mem, blocks, allocCall, start, nextId,
                  dropped, hist, pushed, popped, orig, nFront >>

\* `for _ in &mut *self {}`: the elements next yields until it returns None.
RECURSIVE DrainNext(_, _, _)
DrainNext(m, s, e) ==
  LET r == NextResult(m, s, e) IN
  IF r.ret = << >> THEN << >> ELSE r.ret \o DrainNext(m, r.start, e)

\* <IntoIter as Drop>::drop
DropIter ==
  /\ status = "iter"
  /\ IF cap # 0
     THEN /\ dropped' = dropped \o DrainNext(mem, start, end)
          /\ start' = end
          /\ blocks' = Dealloc(blocks, ptr, Len(dropped'))
          /\ allocCall' = DeallocCall
     ELSE UNCHANGED << dropped, start, blocks, allocCall >>
  /\ status' = "done"
  /\ lastOp' = Op("drop_iter", NoArg, NoArg, << >>, "ok")
  /\ UNCHANGED << T, ptr, cap, len, mem, end, nextId, yielded, hist, pushed,
                  popped, orig, nFront, nBack >>

\* ------------------------------------------------------------------ the caller

\* The indices a caller passes: every valid one and some past the end.
Indices == 0..(cap + 1)

Next ==
  \/ New
  \/ Push
  \/ Pop
  \/ \E idx \in Indices : Insert(idx)
  \/ \E idx \in Indices : Remove(idx)
  \/ \E idx \in Indices : Read(idx)
  \/ \E idx \in Indices : Write(idx)
  \/ DropVec
  \/ IntoIter
  \/ IterNext
  \/ IterNextBack
  \/ DropIter

Spec == Init /\ [][Next]_vars

\* ----------------------------------------------------------------- properties

\* The live elements of the MyVec: slots [0, len) of the buffer.
Live == [i \in 1..len |-> PtrRead(mem, i - 1)]

Reverse(s) == [k \in 1..Len(s) |-> s[Len(s) + 1 - k]]

\* s with v inserted at (0-based) position i.
InsertAt(s, i, v) ==
  [k \in 1..(Len(s) + 1) |-> IF k <= i THEN s[k] ELSE IF k = i + 1 THEN v ELSE s[k - 1]]

\* s without the element at (0-based) position i.
RemoveAt(s, i) ==
  [k \in 1..(Len(s) - 1) |-> IF k <= i THEN s[k] ELSE s[k + 1]]

\* C1: N pushes on a fresh MyVec followed by N pops return Some of the pushed
\* values in reverse order of insertion, and the (N+1)-th pop returns None.
C1_PushPopReverse ==
  hist = "pops" =>
    \A k \in 1..Len(popped) :
      popped[k] = IF k <= Len(pushed)
                  THEN << pushed[Len(pushed) + 1 - k] >>
                  ELSE << >>

\* C2: after any number of pushes on a fresh MyVec, whatever growth they
\* triggered, the view [0, len) is the exact sequence of the values pushed.
C2_GrowthPreserves ==
  hist = "pushes" => (len = Len(pushed) /\ Live = pushed)

\* C3: a successful insert(i, v) puts v at i, moves every element formerly at
\* j >= i to j + 1, leaves every element at j < i alone and adds one to len.
C3_InsertShifts ==
  [][ (lastOp'.op = "insert" /\ lastOp'.out = "ok") =>
        /\ len' = len + 1
        /\ [k \in 1..len' |-> PtrRead(mem', k - 1)]
             = InsertAt(Live, lastOp'.idx, lastOp'.val) ]_vars

\* C4: a successful remove(i) returns the value that was at i, moves every
\* element formerly at j > i to j - 1, leaves every element at j < i alone and
\* takes one from len.
C4_RemoveShifts ==
  [][ (lastOp'.op = "remove" /\ lastOp'.out = "ok") =>
        /\ lastOp'.idx < len
        /\ lastOp'.ret = << Live[lastOp'.idx + 1] >>
        /\ len' = len - 1
        /\ [k \in 1..len' |-> PtrRead(mem', k - 1)] = RemoveAt(Live, lastOp'.idx) ]_vars

\* A remove from the middle of three elements has happened.
C4_Witness ==
  /\ lastOp.op = "remove" /\ lastOp.out = "ok"
  /\ lastOp.idx = 1 /\ len = 2

\* C5: indexing through the view faults exactly when the index is >= len, also
\* for an index in [len, cap); an index < len never faults, a read there yields
\* the element in that slot and a write puts the written element there.
C5_IndexBounds ==
  lastOp.op \in {"read", "write"} =>
    /\ lastOp.out = "panic" <=> lastOp.idx >= len
    /\ (lastOp.op = "read" /\ lastOp.idx < len) =>
         lastOp.ret = << PtrRead(mem, lastOp.idx) >>
    /\ (lastOp.op = "write" /\ lastOp.idx < len) =>
         PtrRead(mem, lastOp.idx) = lastOp.val

\* A read at an index in [len, cap), backed by an allocated slot, has faulted.
C5_Witness ==
  /\ lastOp.op = "read" /\ lastOp.out = "panic"
  /\ lastOp.idx >= len /\ lastOp.idx < cap

\* C6: under any interleaving of next and next_back on an IntoIter made from a
\* MyVec holding e[0..n), the k-th successful next returns e[k-1], the k-th
\* successful next_back returns e[n-k], exactly n calls return Some and a call
\* returns None only once all n elements have been yielded.
C6_IterOrder ==
  (status = "iter" /\ lastOp.op \in {"next", "next_back"}) =>
    LET n == Len(orig) IN
    /\ nFront + nBack <= n
    /\ (lastOp.op = "next" /\ lastOp.ret # << >>) =>
         lastOp.ret = << orig[nFront] >>
    /\ (lastOp.op = "next_back" /\ lastOp.ret # << >>) =>
         lastOp.ret = << orig[n + 1 - nBack] >>
    /\ lastOp.ret = << >> => nFront + nBack = n

\* C7: dropping an IntoIter destroys exactly the elements not yet yielded, the
\* ones between the two cursors, once each and none of the yielded ones, so all
\* n original elements are yielded or destroyed exactly once; the buffer is
\* released after that.
C7_IterDropRest ==
  [][ lastOp'.op = "drop_iter" =>
        /\ dropped' = dropped \o SubSeq(orig, nFront + 1, Len(orig) - nBack)
        /\ yielded' = yielded
        /\ nFront + nBack + (Len(dropped') - Len(dropped)) = Len(orig)
        /\ cap # 0 =>
             (blocks'[ptr].freed = 1 /\ blocks'[ptr].at = Len(dropped')) ]_vars

\* C8: MyVec::new faults for a zero-sized element type: no MyVec of such a type
\* is ever returned to the caller.
C8_ZstRejected ==
  T.size = 0 =>
    \/ status = "start"
    \/ (status = "done" /\ lastOp.op = "new" /\ lastOp.out = "panic")

\* C9: dropping a MyVec destroys the live elements from the last to the first,
\* each once, then releases the buffer, and only if cap != 0; no element handed
\* to the caller before is destroyed again: once the MyVec is dropped every
\* element the caller created has been handed back or destroyed exactly once.
C9_DropVec ==
  /\ [][ lastOp'.op = "drop" =>
           /\ dropped' = dropped \o Reverse(Live)
           /\ yielded' = yielded
           /\ IF cap # 0
              THEN /\ len' = 0
                   /\ blocks'[ptr].freed = blocks[ptr].freed + 1
                   /\ blocks'[ptr].at = Len(dropped')
              ELSE /\ len = 0
                   /\ blocks' = blocks ]_vars
  /\ [] ( (status = "done" /\ lastOp.op = "drop") =>
            Len(yielded) + Len(dropped) = nextId - 1 )

\* A MyVec that had handed an element to the caller was dropped with two live.
C9_Witness ==
  /\ status = "done" /\ lastOp.op = "drop"
  /\ Len(yielded) >= 1 /\ Len(dropped) >= 2 /\ cap # 0

\* C10: every block the allocator handed out is released at most once, the
\* block a live MyVec or IntoIter owns is not released and every other block
\* is, and once the owner is dropped every block has been released exactly once.
C10_SingleRelease ==
  /\ \A b \in 1..Len(blocks) : blocks[b].freed <= 1
  /\ status \in {"vec", "unwind", "iter"} =>
       \A b \in 1..Len(blocks) : blocks[b].freed = IF b = ptr THEN 0 ELSE 1
  /\ status = "done" =>
       \A b \in 1..Len(blocks) : blocks[b].freed = 1

\* An IntoIter whose buffer had been moved by a reallocation was dropped.
C10_Witness ==
  /\ status = "done" /\ lastOp.op = "drop_iter"
  /\ Len(blocks) >= 2 /\ nFront + nBack < Len(orig)

\* C11: in every state of a live MyVec len <= cap and every slot in [0, len)
\* holds an initialized element; no slot in [len, cap) is read as an element or
\* destroyed, so no element handed out or destroyed is an undefined one.
C11_LiveSlotsInitialized ==
  status \in {"vec", "unwind"} =>
    /\ len <= cap
    /\ \A k \in 1..(len * T.size) : mem[k] # Uninit
    /\ \A k \in 1..Len(yielded) : yielded[k] # Indeterminate
    /\ \A k \in 1..Len(dropped) : dropped[k] # Indeterminate

\* The capacities a MyVec can have: 0 and the powers of two.
IsCapacity(c) == c = 0 \/ \E k \in 0..PtrBits : c = 2 ^ k

\* C12: capacity changes only in push or insert, only when len == cap at the
\* call, from 0 to 1 and otherwise to exactly twice its value; it is always 0
\* or a power of two and never decreases.
C12_CapacityDoubling ==
  /\ [][ cap' # cap =>
           /\ lastOp'.op \in {"push", "insert"}
           /\ len = cap
           /\ cap' = IF cap = 0 THEN 1 ELSE 2 * cap ]_vars
  /\ [][ cap' >= cap ]_vars
  /\ [] IsCapacity(cap)

\* A MyVec has grown 0 -> 1 -> 2 -> 4, the last time in an insert.
C12_Witness ==
  /\ cap = 4 /\ lastOp.op = "insert" /\ lastOp.out = "ok" /\ len = 3

\* C13: whenever cap > 0, the block owned has cap * size_of::<T>() bytes, for
\* every element size >= 1, so the slots [0, cap), and with them every write and
\* every shift, lie inside the block.
C13_BlockHoldsCapacity ==
  (status \in {"vec", "unwind", "iter"} /\ cap > 0 /\ T.size >= 1) =>
    /\ blocks[ptr].size = cap * T.size
    /\ len * T.size <= blocks[ptr].size

\* C14: every realloc and every dealloc is given, as the layout of the block,
\* the byte size the block was last allocated or reallocated with; a MyVec or
\* IntoIter with cap = 0 releases nothing.
C14_LayoutMatchesBlock ==
  /\ (T.size >= 1 /\ allocCall.fn \in {"realloc", "dealloc"}) =>
       allocCall.layout = allocCall.block
  /\ (status = "done" /\ cap = 0) => allocCall.fn # "dealloc"

\* C15: when grow faults (the byte size is over the limit, or the allocator
\* returns null) ptr, cap, len, the buffer and the allocator's blocks are what
\* they were before the push or insert: the element was not written, and in the
\* size-limit case no call to the allocator was made.
C15_GrowFaultLeavesState ==
  [][ (lastOp'.op \in {"push", "insert"} /\ lastOp'.out \in {"panic", "abort"}) =>
        /\ ptr' = ptr /\ cap' = cap /\ len' = len
        /\ mem' = mem /\ blocks' = blocks
        /\ lastOp'.out = "panic" => allocCall' = allocCall ]_vars

\* A push on a full MyVec faulted on the size limit after two successful grows.
C15_Witness ==
  /\ lastOp.op = "push" /\ lastOp.out = "panic"
  /\ cap = 2 /\ len = 2 /\ allocCall.fn = "realloc"

\* C16: insert with idx > len and remove with idx >= len fault and leave len,
\* cap, the buffer handle, the buffer and the allocator untouched; an
\* out-of-bounds insert on a full MyVec does not grow it.
C16_BoundsFaultFirst ==
  [][ ( \/ (lastOp'.op = "insert" /\ lastOp'.idx > len)
        \/ (lastOp'.op = "remove" /\ lastOp'.idx >= len) ) =>
        /\ lastOp'.out = "panic"
        /\ len' = len /\ cap' = cap /\ ptr' = ptr
        /\ mem' = mem /\ blocks' = blocks /\ allocCall' = allocCall ]_vars

\* An out-of-bounds insert on a full MyVec has faulted.
C16_Witness ==
  /\ lastOp.op = "insert" /\ lastOp.out = "panic"
  /\ lastOp.idx > len /\ len = cap /\ cap > 0

\* C17: for an IntoIter made from a MyVec of n elements, 0 <= start <= end <=
\* n elements past buf, start at buf and end at buf + len after into_iter, start
\* never decreases and end never increases, and the traversal is exhausted, all
\* n elements yielded, exactly when start == end.
C17_IterCursors ==
  /\ [] ( status = "iter" =>
            /\ 0 <= start /\ start <= end /\ end <= Len(orig) * T.size
            /\ start = nFront * T.size
            /\ end = (Len(orig) - nBack) * T.size
            /\ (start = end) <=> (nFront + nBack = Len(orig)) )
  /\ [][ (status = "iter" /\ status' = "iter") =>
           (start' >= start /\ end' <= end) ]_vars
  /\ [][ lastOp'.op = "into_iter" =>
           (start' = 0 /\ end' = len * T.size /\ (cap = 0 => end' = 0)) ]_vars

\* C18: a write through the view at i < len replaces the element at i only:
\* len, cap, the buffer handle and every other element are unchanged, and a read
\* at i that follows returns the element written.
C18_WriteInPlace ==
  /\ [][ (lastOp'.op = "write" /\ lastOp'.out = "ok") =>
           /\ lastOp'.idx < len
           /\ len' = len /\ cap' = cap /\ ptr' = ptr /\ blocks' = blocks
           /\ [k \in 1..len' |-> PtrRead(mem', k - 1)]
                = [Live EXCEPT ![lastOp'.idx + 1] = lastOp'.val] ]_vars
  /\ [][ ( /\ lastOp.op = "write" /\ lastOp.out = "ok"
           /\ lastOp'.op = "read" /\ lastOp'.idx = lastOp.idx ) =>
           lastOp'.ret = << lastOp.val >> ]_vars

\* The first of two elements has been overwritten in place.
C18_Witness ==
  /\ lastOp.op = "write" /\ lastOp.out = "ok"
  /\ lastOp.idx = 0 /\ len = 2 /\ T.size = 4

\* C19: pop on an empty MyVec returns None and changes nothing (len does not
\* underflow); next and next_back with start == end return None and leave both
\* cursors alone, so after one None every later call at either end is None.
C19_NoValueChangesNothing ==
  /\ [][ (lastOp'.op = "pop" /\ len = 0) =>
           /\ lastOp'.ret = << >>
           /\ len' = 0 /\ cap' = cap /\ ptr' = ptr
           /\ mem' = mem /\ blocks' = blocks ]_vars
  /\ [][ (lastOp'.op \in {"next", "next_back"} /\ start = end) =>
           (lastOp'.ret = << >> /\ start' = start /\ end' = end) ]_vars
  /\ [][ ( /\ lastOp.op \in {"next", "next_back"} /\ lastOp.ret = << >>
           /\ lastOp'.op \in {"next", "next_back"} ) =>
           lastOp'.ret = << >> ]_vars

\* A MyVec that was emptied by pops has been popped once more.
C19_Witness ==
  /\ lastOp.op = "pop" /\ lastOp.ret = << >>
  /\ len = 0 /\ cap > 0 /\ Len(yielded) >= 1

\* C20: in every state of a MyVec, for every i <= len and the next element v:
\* insert(i, v) then remove(i) returns v and restores len and the elements;
\* insert(len, v) leaves what push(v) leaves; and with len > 0, remove(len - 1)
\* returns what pop() returns and leaves the same state.
C20_RoundTrips ==
  status = "vec" =>
    LET v == ValueOf(nextId) IN
    /\ \A g \in GrowIfFull : g.out = "ok" =>
         /\ \A i \in 0..len :
              LET ins == InsertResult(g.mem, len, i, v)
                  rem == RemoveResult(ins.mem, ins.len, i)
              IN /\ rem.item = v
                 /\ rem.len = len
                 /\ SliceFromRawParts(rem.mem, rem.len) = Live
         /\ LET ins == InsertResult(g.mem, len, len, v) IN
              /\ ins.len = len + 1
              /\ ins.mem = PtrWrite(g.mem, len, v)
    /\ len > 0 =>
         LET rem == RemoveResult(mem, len, len - 1)
             pop == PopResult(mem, len)
         IN /\ << rem.item >> = pop.ret
            /\ rem.len = pop.len
            /\ rem.mem = mem

====
